---- MODULE Spec2Model ----
(***************************************************************************)
(* Model of example_create_vector_search.py: a notebook that writes the    *)
(* billing FAQ table, creates a vector search endpoint and a delta sync    *)
(* index, polls describe() until the index is ONLINE and issues two        *)
(* similarity searches.  The notebook is a sequential flow of cells (pc);  *)
(* the managed platform behind the SDK calls is the environment: each call *)
(* either returns or raises, and the index advances on its own.            *)
(***************************************************************************)
EXTENDS Naturals, Sequences, FiniteSets

\* Bound on the poll counter (the loop itself has no bound; the counter saturates).
MaxPolls == 3
\* Bound on the number of times the notebook is run again from the top.
MaxRuns == 2

VARIABLES
    pc,             \* cell of the notebook about to execute
    runs,           \* completed re-runs of the notebook
    tableExists,    \* billing_faq_dataset has been saved
    changeDataFeed, \* delta.enableChangeDataFeed table property
    endpoints,      \* names of the vector search endpoints on the platform
    indexes,        \* names of the indexes on the platform
    indexState,     \* detailed_state of the index (token sequence)
    polls,          \* "Waiting for index to be ONLINE..." iterations of this run
    createReturned, \* create_delta_sync_index returned without raising (this run)
    observedOnline, \* some describe() of this run returned a state starting with ONLINE
    reportedReady,  \* "index ... is ready" was printed (this run)
    endpointError,  \* exception caught by the endpoint cell's handler (this run)
    indexError,     \* exception caught by the index cell's handler (this run)
    raised,         \* exception that left a cell and stopped the run
    searched        \* similarity searches that returned rows in this run

vars == <<pc, runs, tableExists, changeDataFeed, endpoints, indexes, indexState,
          polls, createReturned, observedOnline, reportedReady, endpointError,
          indexError, raised, searched>>

platformVars == <<tableExists, changeDataFeed, endpoints, indexes, indexState>>

----------------------------------------------------------------------------
\* Configuration names

VECTOR_SEARCH_ENDPOINT_NAME == "vs_endpoint"
vs_index_fullname == "catalog.schema.vs_index"

----------------------------------------------------------------------------
\* Exceptions.  str(e) of an SDK failure carries the response's error_code and
\* the HTTP status; it is modelled as the sequence of those fragments.

NoError == [kind |-> "none", code |-> "", status |-> ""]

E_AlreadyExists ==
    [kind |-> "AlreadyExists", code |-> "ALREADY_EXISTS", status |-> "409"]
E_ResourceAlreadyExists ==
    [kind |-> "AlreadyExists", code |-> "RESOURCE_ALREADY_EXISTS", status |-> "409"]
E_ResourceConflict ==
    [kind |-> "ResourceConflict", code |-> "RESOURCE_CONFLICT", status |-> "409"]
E_Timeout ==
    [kind |-> "Timeout", code |-> "DEADLINE_EXCEEDED", status |-> "504"]
E_Upstream ==
    [kind |-> "Upstream", code |-> "INTERNAL_ERROR", status |-> "500"]
E_NotReady ==
    [kind |-> "NotReady", code |-> "FAILED_PRECONDITION", status |-> "400"]
E_NotFound ==
    [kind |-> "NotFound", code |-> "RESOURCE_DOES_NOT_EXIST", status |-> "404"]

\* What the platform answers when the name is already taken.
ExistsErrors == {E_AlreadyExists, E_ResourceAlreadyExists}
\* Failures any call may meet.
CallErrors == {E_ResourceConflict, E_Timeout, E_Upstream}

ErrorCodeFragment(code) == [key |-> "error_code", val |-> code]
StatusCodeFragment(status) == [key |-> "status_code", val |-> status]

\* msg = str(e)
Str(e) == <<ErrorCodeFragment(e.code), StatusCodeFragment(e.status)>>

\* fragment in msg
Contains(msg, fragment) == \E i \in 1..Len(msg) : msg[i] = fragment

\* s.startswith(prefix)
StartsWith(s, prefix) ==
    /\ Len(s) >= Len(prefix)
    /\ SubSeq(s, 1, Len(prefix)) = prefix

----------------------------------------------------------------------------
\* Index states reported by describe().get('status').get('detailed_state')

PROVISIONING == <<"PROVISIONING">>
SYNCING == <<"SYNCING">>
ONLINE == <<"ONLINE">>
ONLINE_NO_PENDING_UPDATE == <<"ONLINE", "NO_PENDING_UPDATE">>
FAILED == <<"FAILED">>
NoIndex == <<>>

DetailedStates == {PROVISIONING, SYNCING, ONLINE, ONLINE_NO_PENDING_UPDATE, FAILED}

IsOnline(state) == StartsWith(state, ONLINE)

----------------------------------------------------------------------------
\* The except handlers

\* if '"error_code":"ALREADY_EXISTS"' in msg or "status_code 409" in msg
EndpointHandlerAbsorbs(e) ==
    \/ Contains(Str(e), ErrorCodeFragment("ALREADY_EXISTS"))
    \/ Contains(Str(e), StatusCodeFragment("409"))

\* The index handler with the endpoint handler's error code and no status test.
MutIndexHandlerAbsorbs(e) ==
    Contains(Str(e), ErrorCodeFragment("ALREADY_EXISTS"))

\* if '"error_code":"RESOURCE_ALREADY_EXISTS"' in msg or "status_code 409" in msg
IndexHandlerAbsorbs(e) ==
    \/ Contains(Str(e), ErrorCodeFragment("RESOURCE_ALREADY_EXISTS"))
    \/ Contains(Str(e), StatusCodeFragment("409"))

----------------------------------------------------------------------------
Init ==
    /\ pc = "write_table"
    /\ runs = 0
    /\ tableExists = FALSE
    /\ changeDataFeed = FALSE
    /\ endpoints = {}
    /\ indexes = {}
    /\ indexState = NoIndex
    /\ polls = 0
    /\ createReturned = FALSE
    /\ observedOnline = FALSE
    /\ reportedReady = FALSE
    /\ endpointError = NoError
    /\ indexError = NoError
    /\ raised = NoError
    /\ searched = {}

runVars == <<polls, createReturned, observedOnline, reportedReady,
             endpointError, indexError, raised, searched>>

\* spark_df.write.format("delta").mode("overwrite").saveAsTable(...)
WriteTable ==
    /\ pc = "write_table"
    /\ tableExists' = TRUE
    /\ pc' = "create_endpoint"
    /\ UNCHANGED <<runs, changeDataFeed, endpoints, indexes, indexState, runVars>>

\* The endpoint cell's handler, entered with exception e.
EndpointExcept(e) ==
    /\ endpointError' = e
    /\ IF EndpointHandlerAbsorbs(e)
         THEN pc' = "enable_cdf" /\ raised' = raised
         ELSE pc' = "failed" /\ raised' = e

\* try: client.create_endpoint_and_wait(...) except Exception as e: ...
CreateEndpoint ==
    /\ pc = "create_endpoint"
    /\ \/ /\ VECTOR_SEARCH_ENDPOINT_NAME \in endpoints
          /\ \E e \in ExistsErrors : EndpointExcept(e)
          /\ UNCHANGED endpoints
       \/ /\ VECTOR_SEARCH_ENDPOINT_NAME \notin endpoints
          /\ \/ /\ endpoints' = endpoints \cup {VECTOR_SEARCH_ENDPOINT_NAME}
                /\ pc' = "enable_cdf"
                /\ UNCHANGED <<endpointError, raised>>
             \/ /\ \E e \in CallErrors : EndpointExcept(e)
                /\ UNCHANGED endpoints
    /\ UNCHANGED <<runs, tableExists, changeDataFeed, indexes, indexState, polls,
                   createReturned, observedOnline, reportedReady, indexError,
                   searched>>

\* ALTER TABLE ... SET TBLPROPERTIES (delta.enableChangeDataFeed = true)
EnableChangeDataFeed ==
    /\ pc = "enable_cdf"
    /\ changeDataFeed' = TRUE
    /\ pc' = "create_index"
    /\ UNCHANGED <<runs, tableExists, endpoints, indexes, indexState, runVars>>

\* The index cell's handler, entered with exception e.
IndexExcept(e) ==
    /\ indexError' = e
    /\ IF IndexHandlerAbsorbs(e)
         THEN pc' = "ann_query" /\ raised' = raised
         ELSE pc' = "failed" /\ raised' = e

\* index = vsc.create_delta_sync_index(...), inside the try
CreateIndex ==
    /\ pc = "create_index"
    /\ \/ /\ vs_index_fullname \in indexes
          /\ \E e \in ExistsErrors : IndexExcept(e)
          /\ UNCHANGED <<indexes, indexState, createReturned>>
       \/ /\ vs_index_fullname \notin indexes
          /\ VECTOR_SEARCH_ENDPOINT_NAME \notin endpoints
          /\ IndexExcept(E_NotFound)
          /\ UNCHANGED <<indexes, indexState, createReturned>>
       \/ /\ vs_index_fullname \notin indexes
          /\ VECTOR_SEARCH_ENDPOINT_NAME \in endpoints
          /\ \/ /\ indexes' = indexes \cup {vs_index_fullname}
                /\ indexState' = PROVISIONING
                /\ createReturned' = TRUE
                /\ pc' = "poll"
                /\ UNCHANGED <<indexError, raised>>
             \/ /\ \E e \in CallErrors : IndexExcept(e)
                /\ UNCHANGED <<indexes, indexState, createReturned>>
    /\ UNCHANGED <<runs, tableExists, changeDataFeed, endpoints, polls,
                   observedOnline, reportedReady, endpointError, searched>>

\* while not index.describe().get('status').get('detailed_state').startswith('ONLINE'):
\* the loop condition; on exit, print(f"index {vs_index} on table {source_table} is ready")
Poll ==
    /\ pc = "poll"
    /\ \/ /\ IsOnline(indexState)
          /\ observedOnline' = TRUE
          /\ reportedReady' = TRUE
          /\ pc' = "ann_query"
          /\ UNCHANGED <<indexError, raised>>
       \/ /\ ~IsOnline(indexState)
          /\ pc' = "sleep"
          /\ UNCHANGED <<observedOnline, reportedReady, indexError, raised>>
       \/ /\ \E e \in CallErrors : IndexExcept(e)
          /\ UNCHANGED <<observedOnline, reportedReady>>
    /\ UNCHANGED <<runs, platformVars, polls, createReturned, endpointError, searched>>

\* the loop body: print("Waiting for index to be ONLINE..."); time.sleep(5)
Sleep ==
    /\ pc = "sleep"
    /\ polls' = IF polls < MaxPolls THEN polls + 1 ELSE polls
    /\ pc' = "poll"
    /\ UNCHANGED <<runs, platformVars, createReturned, observedOnline, reportedReady,
                   endpointError, indexError, raised, searched>>

\* A similarity_search call of the given type; no handler around it.
SimilaritySearch(type, next) ==
    \/ /\ vs_index_fullname \in indexes
       /\ searched' = searched \cup {type}
       /\ pc' = next
       /\ UNCHANGED raised
    \/ /\ \E e \in CallErrors \cup {E_NotReady, E_NotFound} :
            /\ e = E_NotFound <=> vs_index_fullname \notin indexes
            /\ raised' = e
       /\ pc' = "failed"
       /\ UNCHANGED searched

\* results = vsc.get_index(...).similarity_search(..., type="ANN", num_results=5)
AnnQuery ==
    /\ pc = "ann_query"
    /\ SimilaritySearch("ANN", "hybrid_query")
    /\ UNCHANGED <<runs, platformVars, polls, createReturned, observedOnline,
                   reportedReady, endpointError, indexError>>

\* results = vsc.get_index(...).similarity_search(..., type="hybrid", num_results=5)
HybridQuery ==
    /\ pc = "hybrid_query"
    /\ SimilaritySearch("hybrid", "done")
    /\ UNCHANGED <<runs, platformVars, polls, createReturned, observedOnline,
                   reportedReady, endpointError, indexError>>

\* The index pipeline advances on the platform, independently of the notebook.
IndexProgress ==
    /\ vs_index_fullname \in indexes
    /\ \/ indexState = PROVISIONING /\ indexState' \in {SYNCING, FAILED}
       \/ indexState = SYNCING /\ indexState' \in {ONLINE, FAILED}
       \/ indexState = ONLINE /\ indexState' = ONLINE_NO_PENDING_UPDATE
    /\ UNCHANGED <<pc, runs, tableExists, changeDataFeed, endpoints, indexes, runVars>>

\* The notebook is run again from the top.
Rerun ==
    /\ pc \in {"done", "failed"}
    /\ runs < MaxRuns
    /\ runs' = runs + 1
    /\ pc' = "write_table"
    /\ polls' = 0
    /\ createReturned' = FALSE
    /\ observedOnline' = FALSE
    /\ reportedReady' = FALSE
    /\ endpointError' = NoError
    /\ indexError' = NoError
    /\ raised' = NoError
    /\ searched' = {}
    /\ UNCHANGED platformVars

\* One cell (or loop iteration) of the notebook.
Flow ==
    \/ WriteTable
    \/ CreateEndpoint
    \/ EnableChangeDataFeed
    \/ CreateIndex
    \/ Poll
    \/ Sleep
    \/ AnnQuery
    \/ HybridQuery

Next ==
    \/ WriteTable
    \/ CreateEndpoint
    \/ EnableChangeDataFeed
    \/ CreateIndex
    \/ Poll
    \/ Sleep
    \/ AnnQuery
    \/ HybridQuery
    \/ IndexProgress
    \/ Rerun

Spec == Init /\ [][Next]_vars

\* The interpreter keeps executing the flow; the platform keeps working on the index.
LiveSpec == Spec /\ WF_vars(Flow) /\ WF_vars(IndexProgress)

TypeOK ==
    /\ pc \in {"write_table", "create_endpoint", "enable_cdf", "create_index",
               "poll", "sleep", "ann_query", "hybrid_query", "done", "failed"}
    /\ runs \in 0..MaxRuns
    /\ polls \in 0..MaxPolls
    /\ endpoints \subseteq {VECTOR_SEARCH_ENDPOINT_NAME}
    /\ indexes \subseteq {vs_index_fullname}
    /\ indexState \in DetailedStates \cup {NoIndex}
    /\ searched \subseteq {"ANN", "hybrid"}

----------------------------------------------------------------------------
\* Properties

\* C1: readiness polling is bounded: whenever the flow is in the poll loop it
\* eventually leaves it (the state was ONLINE, or the wait failed); it never
\* polls forever while the index stays in a non-ONLINE state.
C1_PollingTerminates == (pc = "poll") ~> (pc \notin {"poll", "sleep"})

\* C3: creation is idempotent: a create_endpoint / create_index call made when
\* the name already exists leaves the sets of endpoints and indexes as they
\* were and completes as a success: the flow goes on to the next cell and no
\* exception reaches the caller.
C3_CreationIdempotent ==
    [][ /\ (/\ pc = "create_endpoint"
            /\ pc' # pc
            /\ VECTOR_SEARCH_ENDPOINT_NAME \in endpoints)
           => (/\ pc' = "enable_cdf"
               /\ raised' = NoError
               /\ endpoints' = endpoints
               /\ indexes' = indexes)
        /\ (/\ pc = "create_index"
            /\ pc' # pc
            /\ vs_index_fullname \in indexes)
           => (/\ pc' = "ann_query"
               /\ raised' = NoError
               /\ endpoints' = endpoints
               /\ indexes' = indexes) ]_vars

\* C3 witness: a run in which both the endpoint and the index already existed
\* and both creation calls were answered "already exists" and absorbed.
C3_Witness ==
    /\ pc = "ann_query"
    /\ endpointError \in ExistsErrors
    /\ indexError \in ExistsErrors
    /\ Cardinality(endpoints) = 1
    /\ Cardinality(indexes) = 1

\* C4: only AlreadyExists is absorbed: any other exception caught by the
\* endpoint cell or the index cell (creation call or describe()) reaches the
\* caller unmodified and the flow stops instead of going on to the queries.
C4_OnlyAlreadyExistsAbsorbed ==
    \A e \in {endpointError, indexError} :
        (e # NoError /\ e.kind # "AlreadyExists") => (pc = "failed" /\ raised = e)

\* C10: change tracking is enabled before the index is created, and on a run
\* where create_delta_sync_index returned without raising, the flow is at or
\* past the query step only if some describe() returned a state beginning
\* with ONLINE.
C10_QueryOnlyAfterOnline ==
    /\ (createReturned => changeDataFeed)
    /\ (createReturned /\ (pc \in {"ann_query", "hybrid_query", "done"} \/ searched # {}))
          => observedOnline

====
